---- MODULE Spec2Model ----
(***************************************************************************)
(* The domain resolution probe of conradhalling/domains.                   *)
(*                                                                         *)
(* Four scripts carry a copy of the probe: check_domains.py,               *)
(* check_cc_domains.py, check_cc_hostnames.py (functions                   *)
(* get_domain_response / get_host_response called from process_data) and   *)
(* request_domains.py (the same blocks inline in main).  One run of a      *)
(* script is modelled: it reads its names, and for each name issues HEAD   *)
(* and GET requests block by block, merges the results into one response,  *)
(* tallies it and writes one record.  The HTTP servers are the             *)
(* environment: each request nondeterministically raises or answers.       *)
(*                                                                         *)
(* Strings are TLA+ strings; None in a string field is the string "None",  *)
(* None in status_code is NoStatus.                                        *)
(*                                                                         *)
(* The data tools that feed the probe are modelled after it:               *)
(* extract_hostnames_for_tld.py and extract_domains_for_tld.py count the   *)
(* hostnames of a top-level domain in crawl index files,                   *)
(* merge_cc_data.py merges their outputs over data sets, and               *)
(* reduce_domains.py reduces hostnames to domains.                         *)
(***************************************************************************)
EXTENDS Integers, Sequences, FiniteSets, TLC

VARIABLES
    script,                 \* which of the four scripts is running
    names,                  \* the names read from the input file, in processing order
    i,                      \* index in names of the name being resolved
    pc,                     \* position: "head", "get", "guard", "return", "done", "aborted"
    k,                      \* the block (1..4) of the probe the position belongs to
    domain_response,        \* the running response (domain_response / host_response)
    new_domain_response,    \* the response of the current later block
    counters,               \* Counters / the inline totals of request_domains.py
    rows,                   \* the records written to the CSV output so far
    log,                    \* the HTTP requests issued for the current name, oldest first
    servers,                \* what the servers reached by this run can answer
    files,                  \* the input files of a data tool, in the order of its arguments
    hostnames_dict          \* the dictionary a data tool builds, as its items in insertion order

vars == <<script, names, i, pc, k, domain_response, new_domain_response,
          counters, rows, log, servers, files, hostnames_dict>>

\* The variables that only the data tools use.
tool_vars == <<files, hostnames_dict>>

----------------------------------------------------------------------------
(* Values *)

None == "None"

NoStatus == 0

Scripts == {"check_domains.py", "check_cc_domains.py",
            "check_cc_hostnames.py", "request_domains.py"}

\* The names the input file may hold (already stripped).
Names == {"ex.io", "www.ex.io", ""}

\* What a server may answer, and what the HTTP client may raise.
StatusCodes == {200, 404, 405}

ExceptionNames == {"ConnectionError", "ReadTimeout"}

reason(status_code) ==
    CASE status_code = 200 -> "OK"
      [] status_code = 404 -> "Not Found"
      [] status_code = 405 -> "Method Not Allowed"
      [] OTHER -> "Unknown"

\* Servers that can give every answer.
AnyServers ==
    [status_codes |-> StatusCodes, exception_names |-> ExceptionNames,
     redirects |-> TRUE]

\* Servers that can give every answer but do not redirect.
DirectServers ==
    [status_codes |-> StatusCodes, exception_names |-> ExceptionNames,
     redirects |-> FALSE]

\* Servers that answer 200 or 405 without redirecting, or refuse the
\* connection.
PlainServers ==
    [status_codes |-> {200, 405}, exception_names |-> {"ConnectionError"},
     redirects |-> FALSE]

\* response.url: the URL after redirects were followed.
FinalUrls(request_url, name) ==
    IF servers.redirects
    THEN {request_url \o "/", "https://www." \o name \o "/"}
    ELSE {request_url \o "/"}

\* The possible results of one call of requests.head / requests.get.
Results(request_url, name) ==
    [raised : {TRUE}, exception_name : servers.exception_names]
    \cup
    [raised : {FALSE}, status_code : servers.status_codes,
     url : FinalUrls(request_url, name)]

startswith(s, prefix) ==
    Len(s) >= Len(prefix) /\ SubSeq(s, 1, Len(prefix)) = prefix

----------------------------------------------------------------------------
(* The response record and the request *)

ValueError == "ValueError"

\* get_request_method that knows the request type "head" only.
get_request_method_head_only(request_type) ==
    IF request_type = "head" THEN "requests.head" ELSE ValueError

\* The function of the requests package for a request type; an invalid
\* request type raises ValueError.
get_request_method(request_type) ==
    IF request_type = "head" THEN "requests.head"
    ELSE IF request_type = "get" THEN "requests.get"
    ELSE ValueError

Unbound ==
    [domain |-> None, request_url |-> None, request_type |-> None,
     exception_name |-> None, status_code |-> NoStatus,
     status_reason |-> None, response_url |-> None]

make_request(scheme, subdomain, name, request_type, result) ==
    LET request_url == scheme \o subdomain \o name
    IN  IF result.raised
        THEN [domain |-> name,
              request_url |-> request_url,
              request_type |-> request_type,
              exception_name |-> result.exception_name,
              status_code |-> NoStatus,
              status_reason |-> None,
              response_url |-> None]
        ELSE [domain |-> name,
              request_url |-> request_url,
              request_type |-> request_type,
              exception_name |-> None,
              status_code |-> result.status_code,
              status_reason |-> reason(result.status_code),
              response_url |-> result.url]

\* update_from that forgets to copy exception_name.
update_from_without_exception_name(self, other) ==
    [domain |-> other.domain,
     request_url |-> other.request_url,
     request_type |-> other.request_type,
     exception_name |-> self.exception_name,
     status_code |-> other.status_code,
     status_reason |-> other.status_reason,
     response_url |-> other.response_url]

update_from(self, other) ==
    [domain |-> other.domain,
     request_url |-> other.request_url,
     request_type |-> other.request_type,
     exception_name |-> other.exception_name,
     status_code |-> other.status_code,
     status_reason |-> other.status_reason,
     response_url |-> other.response_url]

\* keep_new without its first statement: a 200 replaces only a failure.
keep_new_failure_rule_only(self, new) ==
    IF self.status_code = NoStatus /\ new.status_code # NoStatus
    THEN update_from(self, new)
    ELSE self

\* keep_new without its second statement: only a 200 replaces anything.
keep_new_ok_rule_only(self, new) ==
    IF new.status_code = 200 THEN update_from(self, new) ELSE self

\* keep_new whose second statement does not test the old response.
keep_new_later_status(self, new) ==
    LET kept == IF new.status_code = 200 THEN update_from(self, new) ELSE self
    IN  IF new.status_code # NoStatus
        THEN update_from(kept, new)
        ELSE kept

\* keep_new that always keeps the new response.
keep_new_last_wins(self, new) == update_from(self, new)

\* The two "keep the new response" statements that end every later block.
keep_new(self, new) ==
    LET kept == IF new.status_code = 200 THEN update_from(self, new) ELSE self
    IN  IF kept.status_code = NoStatus /\ new.status_code # NoStatus
        THEN update_from(kept, new)
        ELSE kept

\* The seven assignments without the last one: response_url is not copied.
copy_fields_without_response_url(self, other) ==
    [domain |-> other.domain,
     request_url |-> other.request_url,
     request_type |-> other.request_type,
     exception_name |-> other.exception_name,
     status_code |-> other.status_code,
     status_reason |-> other.status_reason,
     response_url |-> self.response_url]

\* request_domains.py has no update_from: it copies the seven fields with
\* seven assignments, written out in each "keep the new response" statement.
copy_fields(self, other) ==
    [domain |-> other.domain,
     request_url |-> other.request_url,
     request_type |-> other.request_type,
     exception_name |-> other.exception_name,
     status_code |-> other.status_code,
     status_reason |-> other.status_reason,
     response_url |-> other.response_url]

\* keep_new_inline whose second statement tests the new response only.
keep_new_inline_later_status(self, new) ==
    LET kept == IF new.status_code = 200 THEN copy_fields(self, new) ELSE self
    IN  IF new.status_code # NoStatus
        THEN copy_fields(kept, new)
        ELSE kept

\* The two "keep the new response" statements of request_domains.py.
keep_new_inline(self, new) ==
    LET kept == IF new.status_code = 200 THEN copy_fields(self, new) ELSE self
    IN  IF kept.status_code = NoStatus /\ new.status_code # NoStatus
        THEN copy_fields(kept, new)
        ELSE kept

\* The end of a later block, in the script s.
merge(s, self, new) ==
    IF s = "request_domains.py"
    THEN keep_new_inline(self, new)
    ELSE keep_new(self, new)

\* try_get that tests for the wrong status code.
try_get_on_404(response) == response.status_code = 404

\* try_get that retries whatever was not a 200.
try_get_unless_ok(response) == response.status_code # 200

\* try_get that never tries again.
try_get_never(response) == FALSE

\* "On status_code 405, try again with get."
try_get(response) == response.status_code = 405

----------------------------------------------------------------------------
(* The blocks of the probe *)

HttpFirst ==
    << [scheme |-> "http://",  subdomain |-> ""],
       [scheme |-> "http://",  subdomain |-> "www."],
       [scheme |-> "https://", subdomain |-> ""],
       [scheme |-> "https://", subdomain |-> "www."] >>

HttpsFirst ==
    << [scheme |-> "https://", subdomain |-> ""],
       [scheme |-> "https://", subdomain |-> "www."],
       [scheme |-> "http://",  subdomain |-> ""],
       [scheme |-> "http://",  subdomain |-> "www."] >>

\* Blocks with all four scripts in the order of check_domains.py.
Blocks_http_first_everywhere(s) == HttpFirst

\* Blocks with a fifth block that tries the first candidate once more.
Blocks_with_fifth_block(s) ==
    IF s \in {"check_domains.py", "request_domains.py"}
    THEN Append(HttpFirst, HttpFirst[1])
    ELSE Append(HttpsFirst, HttpsFirst[1])

Blocks(s) ==
    IF s \in {"check_domains.py", "request_domains.py"}
    THEN HttpFirst
    ELSE HttpsFirst

NumBlocks(s) == Len(Blocks(s))

\* enter_block that does not look at the status code of the response.
enter_block_always(s, candidate, name, response) ==
    /\ response.exception_name # None \/ response.status_code # NoStatus
    /\ (s = "check_cc_hostnames.py" /\ candidate.subdomain = "www.")
           => ~startswith(name, "www.")

\* enter_block that goes on only after a failure.
enter_block_after_failure(s, candidate, name, response) ==
    /\ response.exception_name # None
    /\ (s = "check_cc_hostnames.py" /\ candidate.subdomain = "www.")
           => ~startswith(name, "www.")

\* enter_block without the test of check_cc_hostnames.py on the name.
enter_block_without_www_test(s, candidate, name, response) ==
    response.exception_name # None \/ response.status_code # 200

\* enter_block that skips the "www." blocks of check_cc_hostnames.py for
\* every name.
enter_block_never_www(s, candidate, name, response) ==
    /\ response.exception_name # None \/ response.status_code # 200
    /\ ~ (s = "check_cc_hostnames.py" /\ candidate.subdomain = "www.")

\* The condition under which a later block is entered.
enter_block(s, candidate, name, response) ==
    /\ response.exception_name # None \/ response.status_code # 200
    /\ (s = "check_cc_hostnames.py" /\ candidate.subdomain = "www.")
           => ~startswith(name, "www.")

domain == names[i]

block == Blocks(script)[k]

----------------------------------------------------------------------------
(* The probe as a function of the answers of the servers *)

\* One block of the probe function: the HEAD request to a candidate and,
\* on status code 405, the GET request to it.  answers gives the result
\* of each request, by URL and request type.
request_block(s, name, answers, b) ==
    LET candidate == Blocks(s)[b]
        request_url == candidate.scheme \o candidate.subdomain \o name
        head == make_request(candidate.scheme, candidate.subdomain, name,
                             "head", answers[<<request_url, "head">>])
        get == make_request(candidate.scheme, candidate.subdomain, name,
                            "get", answers[<<request_url, "get">>])
    IN  IF try_get(head)
        THEN [response |-> get,
              requests |-> << <<request_url, "head">>,
                              <<request_url, "get">> >>]
        ELSE [response |-> head,
              requests |-> << <<request_url, "head">> >>]

\* The blocks from b on, entered with the response and the requests so far.
RECURSIVE later_blocks(_, _, _, _, _)
later_blocks(s, name, answers, b, sofar) ==
    IF b > NumBlocks(s)
    THEN sofar
    ELSE IF enter_block(s, Blocks(s)[b], name, sofar.response)
         THEN LET new == request_block(s, name, answers, b)
              IN  later_blocks(s, name, answers, b + 1,
                      [response |-> keep_new(sofar.response, new.response),
                       requests |-> sofar.requests \o new.requests])
         ELSE later_blocks(s, name, answers, b + 1, sofar)

\* get_domain_response of check_domains.py and check_cc_domains.py and
\* get_host_response of check_cc_hostnames.py: the response returned for a
\* name, with the requests made.
get_domain_response(s, name, answers) ==
    later_blocks(s, name, answers, 2, request_block(s, name, answers, 1))

----------------------------------------------------------------------------
(* Counters *)

\* increment with "if" in the place of "elif": a 200 is also another status.
increment_without_elif(self, status_code) ==
    [total_domains |-> self.total_domains + 1,
     total_200_status |->
         self.total_200_status + (IF status_code = 200 THEN 1 ELSE 0),
     total_other_status |->
         self.total_other_status + (IF status_code # NoStatus THEN 1 ELSE 0),
     total_exceptions |->
         self.total_exceptions + (IF status_code = NoStatus THEN 1 ELSE 0)]

\* increment that counts the name only in the branches with a status code.
increment_total_on_status(self, status_code) ==
    [total_domains |->
         self.total_domains + (IF status_code # NoStatus THEN 1 ELSE 0),
     total_200_status |->
         self.total_200_status + (IF status_code = 200 THEN 1 ELSE 0),
     total_other_status |->
         self.total_other_status
             + (IF status_code # 200 /\ status_code # NoStatus THEN 1 ELSE 0),
     total_exceptions |->
         self.total_exceptions
             + (IF status_code # 200 /\ status_code = NoStatus THEN 1 ELSE 0)]

increment(self, status_code) ==
    [total_domains |-> self.total_domains + 1,
     total_200_status |->
         self.total_200_status + (IF status_code = 200 THEN 1 ELSE 0),
     total_other_status |->
         self.total_other_status
             + (IF status_code # 200 /\ status_code # NoStatus THEN 1 ELSE 0),
     total_exceptions |->
         self.total_exceptions
             + (IF status_code # 200 /\ status_code = NoStatus THEN 1 ELSE 0)]

\* The counters of request_domains.py are four variables of main,
\* incremented in the loop.
count_inline(self, status_code) ==
    [total_domains |-> self.total_domains + 1,
     total_200_status |->
         self.total_200_status + (IF status_code = 200 THEN 1 ELSE 0),
     total_other_status |->
         self.total_other_status
             + (IF status_code # 200 /\ status_code # NoStatus THEN 1 ELSE 0),
     total_exceptions |->
         self.total_exceptions
             + (IF status_code # 200 /\ status_code = NoStatus THEN 1 ELSE 0)]

\* The tally of one response, in the script s.
tally(s, self, status_code) ==
    IF s = "request_domains.py"
    THEN count_inline(self, status_code)
    ELSE increment(self, status_code)

----------------------------------------------------------------------------
(* Initial state: a script started on an input file holding one name *)

Init ==
    /\ script \in Scripts
    /\ names \in {<<n>> : n \in Names}
    /\ i = 1
    /\ pc = "head"
    /\ k = 1
    /\ domain_response = Unbound
    /\ new_domain_response = Unbound
    /\ counters = [total_domains |-> 0, total_200_status |-> 0,
                   total_other_status |-> 0, total_exceptions |-> 0]
    /\ rows = <<>>
    /\ log = <<>>
    /\ servers = AnyServers
    /\ files = <<>>
    /\ hostnames_dict = <<>>

----------------------------------------------------------------------------
(* Actions *)

\* After block k has finished: on to the guard of the next block, or return.
after_block ==
    IF k < NumBlocks(script)
    THEN pc' = "guard" /\ k' = k + 1
    ELSE pc' = "return" /\ k' = k

\* The HEAD request of the first block.
HeadFirst ==
    /\ pc = "head" /\ k = 1
    /\ IF get_request_method("head") = ValueError
       THEN pc' = "aborted" /\ UNCHANGED <<k, domain_response, log>>
       ELSE \E result \in Results(block.scheme \o block.subdomain \o domain,
                                  domain) :
        LET response == make_request(block.scheme, block.subdomain, domain,
                                     "head", result)
        IN  /\ log' = Append(log, [block |-> k, response |-> response])
            /\ domain_response' = response
            /\ IF try_get(response)
               THEN pc' = "get" /\ k' = k
               ELSE after_block
    /\ UNCHANGED <<script, names, i, new_domain_response, counters, rows,
                   servers, tool_vars>>

\* The GET request of the first block.
GetFirst ==
    /\ pc = "get" /\ k = 1
    /\ IF get_request_method("get") = ValueError
       THEN pc' = "aborted" /\ UNCHANGED <<k, domain_response, log>>
       ELSE \E result \in Results(block.scheme \o block.subdomain \o domain,
                                  domain) :
        LET response == make_request(block.scheme, block.subdomain, domain,
                                     "get", result)
        IN  /\ log' = Append(log, [block |-> k, response |-> response])
            /\ domain_response' = response
            /\ after_block
    /\ UNCHANGED <<script, names, i, new_domain_response, counters, rows,
                   servers, tool_vars>>

\* The if statement(s) that guard a later block.
Guard ==
    /\ pc = "guard"
    /\ IF enter_block(script, block, domain, domain_response)
       THEN pc' = "head" /\ k' = k
       ELSE after_block
    /\ UNCHANGED <<script, names, i, domain_response, new_domain_response,
                   counters, rows, log, servers, tool_vars>>

\* The HEAD request of a later block, and the merge when no GET follows.
HeadNext ==
    /\ pc = "head" /\ k > 1
    /\ IF get_request_method("head") = ValueError
       THEN /\ pc' = "aborted"
            /\ UNCHANGED <<k, domain_response, new_domain_response, log>>
       ELSE \E result \in Results(block.scheme \o block.subdomain \o domain,
                                  domain) :
        LET response == make_request(block.scheme, block.subdomain, domain,
                                     "head", result)
        IN  /\ log' = Append(log, [block |-> k, response |-> response])
            /\ new_domain_response' = response
            /\ IF try_get(response)
               THEN /\ pc' = "get" /\ k' = k
                    /\ domain_response' = domain_response
               ELSE /\ domain_response' =
                       merge(script, domain_response, response)
                    /\ after_block
    /\ UNCHANGED <<script, names, i, counters, rows, servers, tool_vars>>

\* The GET request of a later block, and the merge.
GetNext ==
    /\ pc = "get" /\ k > 1
    /\ IF get_request_method("get") = ValueError
       THEN /\ pc' = "aborted"
            /\ UNCHANGED <<k, domain_response, new_domain_response, log>>
       ELSE \E result \in Results(block.scheme \o block.subdomain \o domain,
                                  domain) :
        LET response == make_request(block.scheme, block.subdomain, domain,
                                     "get", result)
        IN  /\ log' = Append(log, [block |-> k, response |-> response])
            /\ new_domain_response' = response
            /\ domain_response' = merge(script, domain_response, response)
            /\ after_block
    /\ UNCHANGED <<script, names, i, counters, rows, servers, tool_vars>>

\* Return with writerow after the loop: only the last response is written.
Return_write_after_loop ==
    /\ pc = "return"
    /\ counters' = tally(script, counters, domain_response.status_code)
    /\ rows' = IF i < Len(names) THEN rows ELSE Append(rows, domain_response)
    /\ log' = <<>>
    /\ IF i < Len(names)
       THEN i' = i + 1 /\ pc' = "head" /\ k' = 1
       ELSE i' = i /\ pc' = "done" /\ k' = k
    /\ new_domain_response' =
          IF script = "request_domains.py"
          THEN new_domain_response
          ELSE Unbound
    /\ UNCHANGED <<script, names, domain_response, servers, tool_vars>>

\* The probe has returned: tally the response, write its record, next name.
\* new_domain_response is a local variable of the probe function; in
\* request_domains.py it is a variable of main and outlives the name.
Return ==
    /\ pc = "return"
    /\ counters' = tally(script, counters, domain_response.status_code)
    /\ rows' = Append(rows, domain_response)
    /\ log' = <<>>
    /\ IF i < Len(names)
       THEN i' = i + 1 /\ pc' = "head" /\ k' = 1
       ELSE i' = i /\ pc' = "done" /\ k' = k
    /\ new_domain_response' =
          IF script = "request_domains.py"
          THEN new_domain_response
          ELSE Unbound
    /\ UNCHANGED <<script, names, domain_response, servers, tool_vars>>

Next ==
    \/ HeadFirst
    \/ GetFirst
    \/ Guard
    \/ HeadNext
    \/ GetNext
    \/ Return

Spec == Init /\ [][Next]_vars

\* A script started on one name whose servers do not redirect.
FairInit ==
    /\ script \in Scripts
    /\ names \in {<<n>> : n \in Names}
    /\ i = 1
    /\ pc = "head"
    /\ k = 1
    /\ domain_response = Unbound
    /\ new_domain_response = Unbound
    /\ counters = [total_domains |-> 0, total_200_status |-> 0,
                   total_other_status |-> 0, total_exceptions |-> 0]
    /\ rows = <<>>
    /\ log = <<>>
    /\ servers = DirectServers
    /\ files = <<>>
    /\ hostnames_dict = <<>>

\* Every request completes or fails within its timeout, and the script
\* keeps running: a step that can be taken is taken.
FairSpec == FairInit /\ [][Next]_vars /\ WF_vars(Next)

----------------------------------------------------------------------------
(* A batch: a script started on an input file holding several names *)

MaxNames == 2

\* The place of a name in the order of Python strings.
name_rank(name) ==
    CASE name = "" -> 0
      [] name = "ex.io" -> 1
      [] name = "www.ex.io" -> 2

\* check_cc_hostnames.py sorts its rows before it processes them (all
\* rows here have the same domain column).
is_sorted(batch) ==
    \A p, q \in 1..Len(batch) :
        p < q => name_rank(batch[p]) <= name_rank(batch[q])

Batches == UNION {[1..n -> Names] : n \in 1..MaxNames}

BatchInit ==
    /\ script \in Scripts
    /\ names \in {batch \in Batches :
                    script = "check_cc_hostnames.py" => is_sorted(batch)}
    /\ i = 1
    /\ pc = "head"
    /\ k = 1
    /\ domain_response = Unbound
    /\ new_domain_response = Unbound
    /\ counters = [total_domains |-> 0, total_200_status |-> 0,
                   total_other_status |-> 0, total_exceptions |-> 0]
    /\ rows = <<>>
    /\ log = <<>>
    /\ servers = PlainServers
    /\ files = <<>>
    /\ hostnames_dict = <<>>

BatchSpec == BatchInit /\ [][Next]_vars

----------------------------------------------------------------------------
(* The data tools: Python strings and dictionaries *)

\* str.count, for a substring of one character.
count(s, ch) == Cardinality({j \in 1..Len(s) : SubSeq(s, j, j) = ch})

\* str.index, for a substring of one character that occurs in s; the
\* index is 0-based.
index(s, ch) ==
    (CHOOSE j \in 1..Len(s) :
        /\ SubSeq(s, j, j) = ch
        /\ \A m \in 1..(j - 1) : SubSeq(s, m, m) # ch) - 1

\* The slice s[start:].
slice_from(s, start) == SubSeq(s, start + 1, Len(s))

endswith(s, suffix) ==
    /\ Len(s) >= Len(suffix)
    /\ SubSeq(s, Len(s) - Len(suffix) + 1, Len(s)) = suffix

\* str of a natural number, as csv.writer and str.format write it.
RECURSIVE str(_)
str(n) ==
    IF n < 10
    THEN SubSeq("0123456789", n + 1, n + 1)
    ELSE str(n \div 10) \o SubSeq("0123456789", (n % 10) + 1, (n % 10) + 1)

\* A dict is the sequence of its items <<key, value>> in insertion order.
keys(d) == {d[j][1] : j \in 1..Len(d)}

\* d[key] of a defaultdict(int).
get_item(d, key) ==
    IF key \in keys(d)
    THEN d[CHOOSE j \in 1..Len(d) : d[j][1] = key][2]
    ELSE 0

\* set_item that leaves the value of a key that is present (setdefault).
set_item_keep_first(d, key, value) ==
    IF key \in keys(d) THEN d ELSE Append(d, <<key, value>>)

\* d[key] = value: a key that is present keeps its place.
set_item(d, key, value) ==
    IF key \in keys(d)
    THEN [j \in 1..Len(d) |-> IF d[j][1] = key THEN <<key, value>> ELSE d[j]]
    ELSE Append(d, <<key, value>>)

\* dict.update: the value of other replaces the value of a key present in
\* both.
RECURSIVE update(_, _)
update(d, other) ==
    IF other = <<>>
    THEN d
    ELSE update(set_item(d, Head(other)[1], Head(other)[2]), Tail(other))

\* The place of an item among items sorted by value, largest first: after
\* the items whose value is not smaller.
insert_by_value(sorted, item) ==
    LET n == Cardinality({j \in 1..Len(sorted) : sorted[j][2] >= item[2]})
    IN  SubSeq(sorted, 1, n) \o <<item>> \o SubSeq(sorted, n + 1, Len(sorted))

\* sorted(d.items(), key=lambda item: item[1], reverse=True): the sort is
\* stable, items of equal value keep their order.
RECURSIVE sorted_by_values(_)
sorted_by_values(d) ==
    IF d = <<>>
    THEN <<>>
    ELSE insert_by_value(sorted_by_values(SubSeq(d, 1, Len(d) - 1)),
                         d[Len(d)])

----------------------------------------------------------------------------
(* extract_hostnames_for_tld.py and extract_domains_for_tld.py *)

Extractors == {"extract_hostnames_for_tld.py", "extract_domains_for_tld.py"}

\* The --tld argument.
tld == ".science"

\* A record of a crawl index file is modelled by the host of its URL.
CdxHosts == {"a.science", "b.a.science", "a.info"}

\* re.search(pattern, line): the pattern matches a host that ends with the
\* top-level domain, and group 1 is that host.
search(pattern_tld, host) ==
    IF Len(host) > Len(pattern_tld) /\ endswith(host, pattern_tld)
    THEN host
    ELSE None

\* The loop of process_file over the lines of a file.
RECURSIVE process_lines(_, _)
process_lines(lines, d) ==
    IF lines = <<>>
    THEN d
    ELSE LET match == search(tld, Head(lines))
         IN  process_lines(Tail(lines),
                 IF match # None
                 THEN set_item(d, match, get_item(d, match) + 1)
                 ELSE d)

process_file(file) == process_lines(file, <<>>)

\* The while loop of extract_domain_from_hostname.
RECURSIVE while_more_than_one_dot(_)
while_more_than_one_dot(name) ==
    IF count(name, ".") > 1
    THEN while_more_than_one_dot(slice_from(name, index(name, ".") + 1))
    ELSE name

\* extract_domain_from_hostname with "if" in the place of "while".
extract_domain_strip_once(hostname) ==
    IF count(hostname, ".") > 1
    THEN slice_from(hostname, index(hostname, ".") + 1)
    ELSE hostname

extract_domain_from_hostname(hostname) == while_more_than_one_dot(hostname)

\* The line written for an item: a CSV row with the domain, or key and
\* value.
out_row(s, item) ==
    IF s = "extract_hostnames_for_tld.py"
    THEN <<item[1], extract_domain_from_hostname(item[1]), str(item[2])>>
    ELSE <<item[1], str(item[2])>>

MaxFiles == 2

MaxRecords == 2

CdxFiles == UNION {[1..n -> CdxHosts] : n \in 0..MaxRecords}

ExtractInit ==
    /\ script \in Extractors
    /\ files \in UNION {[1..n -> CdxFiles] : n \in 1..MaxFiles}
    /\ hostnames_dict = <<>>
    /\ i = 1
    /\ pc = "cdx_file"
    /\ rows = <<>>
    /\ names = <<>>
    /\ k = 1
    /\ domain_response = Unbound
    /\ new_domain_response = Unbound
    /\ counters = [total_domains |-> 0, total_200_status |-> 0,
                   total_other_status |-> 0, total_exceptions |-> 0]
    /\ log = <<>>
    /\ servers = AnyServers

\* One turn of the loop of main over the --cdx_file arguments.
ProcessCdxFile ==
    /\ script \in Extractors
    /\ pc = "cdx_file"
    /\ i <= Len(files)
    /\ hostnames_dict' = update(hostnames_dict, process_file(files[i]))
    /\ i' = i + 1
    /\ UNCHANGED <<script, names, pc, k, domain_response,
                   new_domain_response, counters, rows, log, servers, files>>

\* After the loop: sort the items by value and write the output file.
WriteOutFile ==
    /\ script \in Extractors
    /\ pc = "cdx_file"
    /\ i > Len(files)
    /\ rows' = LET sorted == sorted_by_values(hostnames_dict)
               IN  [j \in 1..Len(sorted) |-> out_row(script, sorted[j])]
    /\ pc' = "done"
    /\ UNCHANGED <<script, names, i, k, domain_response,
                   new_domain_response, counters, log, servers, tool_vars>>

ExtractNext ==
    \/ ProcessCdxFile
    \/ WriteOutFile

ExtractSpec == ExtractInit /\ [][ExtractNext]_vars

----------------------------------------------------------------------------
(* merge_cc_data.py *)

\* The --data_set arguments that can be given.
DataSets == {"2024-51", "2025-05", "2025-08"}

MaxDataSets == 2

\* The hostnames and page counts in the input files.
MergeHosts == {"a.science", "b.a.science"}

PageCounts == {1, 2}

\* The input file of a data set is an output of
\* extract_hostnames_for_tld.py: one row for each hostname, the larger page
\* counts first, and the page count written as text.
Counted ==
    {c \in UNION {[1..n -> MergeHosts \X PageCounts] :
                     n \in 0..Cardinality(MergeHosts)} :
        \A p, q \in 1..Len(c) :
            p < q => c[p][1] # c[q][1] /\ c[p][2] >= c[q][2]}

InFiles ==
    {[j \in 1..Len(c) |->
        <<c[j][1], extract_domain_from_hostname(c[j][1]), str(c[j][2])>>] :
     c \in Counted}

\* The lists of distinct data sets, each with its input file.
DataSetLists ==
    {l \in UNION {[1..n -> [data_set : DataSets, rows : InFiles]] :
                     n \in 1..MaxDataSets} :
        \A p, q \in 1..Len(l) : p < q => l[p].data_set # l[q].data_set}

\* The loop of merge_cc_data over the rows of one input file.
RECURSIVE merge_rows(_, _, _)
merge_rows(d, data_set, file_rows) ==
    IF file_rows = <<>>
    THEN d
    ELSE LET hostname == Head(file_rows)[1]
             name == Head(file_rows)[2]
             page_count == Head(file_rows)[3]
         IN  merge_rows(set_item(d, hostname,
                                 <<hostname, name, data_set, page_count>>),
                        data_set, Tail(file_rows))

MergeInit ==
    /\ script = "merge_cc_data.py"
    /\ files \in DataSetLists
    /\ hostnames_dict = <<>>
    /\ i = 1
    /\ pc = "data_set"
    /\ rows = <<>>
    /\ names = <<>>
    /\ k = 1
    /\ domain_response = Unbound
    /\ new_domain_response = Unbound
    /\ counters = [total_domains |-> 0, total_200_status |-> 0,
                   total_other_status |-> 0, total_exceptions |-> 0]
    /\ log = <<>>
    /\ servers = AnyServers

\* One turn of the loop of merge_cc_data over the data sets.
ReadDataSet ==
    /\ script = "merge_cc_data.py"
    /\ pc = "data_set"
    /\ i <= Len(files)
    /\ hostnames_dict' =
          merge_rows(hostnames_dict, files[i].data_set, files[i].rows)
    /\ i' = i + 1
    /\ UNCHANGED <<script, names, pc, k, domain_response,
                   new_domain_response, counters, rows, log, servers, files>>

\* After the loop: write the values of the dictionary.
WriteMerged ==
    /\ script = "merge_cc_data.py"
    /\ pc = "data_set"
    /\ i > Len(files)
    /\ rows' = [j \in 1..Len(hostnames_dict) |-> hostnames_dict[j][2]]
    /\ pc' = "done"
    /\ UNCHANGED <<script, names, i, k, domain_response,
                   new_domain_response, counters, log, servers, tool_vars>>

MergeNext ==
    \/ ReadDataSet
    \/ WriteMerged

MergeSpec == MergeInit /\ [][MergeNext]_vars

----------------------------------------------------------------------------
(* reduce_domains.py, and the reduction of hostnames to domains *)

\* The while loop of reduce_domains.py.
RECURSIVE reduce_while(_)
reduce_while(name) ==
    IF count(name, ".") > 1
    THEN reduce_while(slice_from(name, index(name, ".") + 1))
    ELSE name

\* The domain that main counts for the domain read from a line.
reduce_domain(name) ==
    LET dot_count == count(name, ".")
    IN  IF dot_count = 1 THEN name ELSE reduce_while(name)

\* data_line.split(): the first of the two fields of a line.
split_first(data_line) == SubSeq(data_line, 1, index(data_line, " "))

\* The order of the characters of a name.
ord(ch) == index("-.0123456789abcdefghijklmnopqrstuvwxyz", ch)

\* The order of Python strings.
RECURSIVE less(_, _)
less(s, t) ==
    IF s = "" THEN t # ""
    ELSE IF t = "" THEN FALSE
    ELSE IF SubSeq(s, 1, 1) # SubSeq(t, 1, 1)
         THEN ord(SubSeq(s, 1, 1)) < ord(SubSeq(t, 1, 1))
         ELSE less(slice_from(s, 1), slice_from(t, 1))

\* list.sort() of a list of distinct strings.
RECURSIVE sort(_)
sort(list) ==
    IF list = <<>>
    THEN <<>>
    ELSE LET rest == sort(SubSeq(list, 1, Len(list) - 1))
             last == list[Len(list)]
             n == Cardinality({j \in 1..Len(rest) : less(rest[j], last)})
         IN  SubSeq(rest, 1, n) \o <<last>> \o SubSeq(rest, n + 1, Len(rest))

\* The loop of main over the lines of the input file.
RECURSIVE reduce_lines(_, _)
reduce_lines(lines, d) ==
    IF lines = <<>>
    THEN d
    ELSE LET name == reduce_domain(split_first(Head(lines)))
         IN  reduce_lines(Tail(lines),
                          set_item(d, name, get_item(d, name) + 1))

MaxLabels == 4

Labels == {"hal", "science"}

\* "."-joined labels.
RECURSIVE join(_)
join(labels) ==
    IF Len(labels) = 1
    THEN labels[1]
    ELSE labels[1] \o "." \o join(Tail(labels))

\* The hostnames are those of one top-level domain.
LabelLists ==
    {l \in UNION {[1..n -> Labels] : n \in 1..MaxLabels} :
        "." \o l[Len(l)] = tld}

Hostnames == {join(l) : l \in LabelLists}

HostnameLists == UNION {[1..n -> Hostnames] : n \in 1..MaxRecords}

\* extract_hostnames_for_tld.py on one index file, or reduce_domains.py on
\* an output of extract_domains_for_tld.py, over hostnames of up to
\* MaxLabels labels.
DomainInit ==
    /\ script \in {"extract_hostnames_for_tld.py", "reduce_domains.py"}
    /\ \E l \in HostnameLists :
          files = IF script = "reduce_domains.py"
                  THEN << [j \in 1..Len(l) |-> l[j] \o " 1"] >>
                  ELSE << l >>
    /\ hostnames_dict = <<>>
    /\ i = 1
    /\ pc = IF script = "reduce_domains.py" THEN "data_line" ELSE "cdx_file"
    /\ rows = <<>>
    /\ names = <<>>
    /\ k = 1
    /\ domain_response = Unbound
    /\ new_domain_response = Unbound
    /\ counters = [total_domains |-> 0, total_200_status |-> 0,
                   total_other_status |-> 0, total_exceptions |-> 0]
    /\ log = <<>>
    /\ servers = AnyServers

\* The loop of main of reduce_domains.py over the input file.
ReadDomains ==
    /\ script = "reduce_domains.py"
    /\ pc = "data_line"
    /\ i <= Len(files)
    /\ hostnames_dict' = reduce_lines(files[i], hostnames_dict)
    /\ i' = i + 1
    /\ UNCHANGED <<script, names, pc, k, domain_response,
                   new_domain_response, counters, rows, log, servers, files>>

\* After the loop: sort the keys and print them.
WriteDomains ==
    /\ script = "reduce_domains.py"
    /\ pc = "data_line"
    /\ i > Len(files)
    /\ rows' = sort([j \in 1..Len(hostnames_dict) |-> hostnames_dict[j][1]])
    /\ pc' = "done"
    /\ UNCHANGED <<script, names, i, k, domain_response,
                   new_domain_response, counters, log, servers, tool_vars>>

DomainNext ==
    \/ ProcessCdxFile
    \/ WriteOutFile
    \/ ReadDomains
    \/ WriteDomains

DomainSpec == DomainInit /\ [][DomainNext]_vars

----------------------------------------------------------------------------
(* Vocabulary of the properties *)

\* The positions of the log.
Positions == 1..Len(log)

\* The string sub occurs in the string s.
contains(s, sub) ==
    \E j \in 1..Len(s) :
        j + Len(sub) - 1 <= Len(s) /\ SubSeq(s, j, j + Len(sub) - 1) = sub

\* The attempt recorded for a candidate is its GET request when there was
\* one, else its HEAD request: every request but a HEAD answered 405.
IsRecorded(p) ==
    log[p].response.request_type = "get" \/ log[p].response.status_code # 405

RecordedPositions == {p \in Positions : IsRecorded(p)}

OkPositions == {p \in RecordedPositions : log[p].response.status_code = 200}

StatusPositions ==
    {p \in RecordedPositions : log[p].response.status_code # NoStatus}

\* The candidates of the running script for the current name, as block numbers.
CandidateBlocks ==
    IF script = "check_cc_hostnames.py" /\ startswith(domain, "www.")
    THEN {1, 3}
    ELSE {1, 2, 3, 4}

TriedBlocks == {log[p].block : p \in Positions}

\* The probe is between two candidates or has returned.
BetweenCandidates == pc \in {"guard", "return"}

----------------------------------------------------------------------------
(* C1 - short-circuit *)

\* C1: once the recorded attempt of a candidate has status code 200, it is
\* the last request issued for the name (no request goes to a later
\* candidate), the probe is past that candidate and only skips or returns,
\* and the running response, which is the one returned, has that
\* candidate's request_url.
C1_ShortCircuit ==
    \A p \in OkPositions :
        /\ p = Len(log)
        /\ BetweenCandidates
        /\ domain_response.request_url = log[p].response.request_url

\* A 200 recorded for a candidate that is not the last one, and the probe
\* returned with the later candidates never requested.
C1_Witness ==
    /\ pc = "return"
    /\ OkPositions # {}
    /\ \E p \in OkPositions : log[p].block \in {2, 3}
    /\ Len(log) >= 2

----------------------------------------------------------------------------
(* C2 - the earliest 200 wins *)

\* C2: when the probe has returned, the candidates were tried in their
\* order without a gap; if a candidate recorded 200 the returned response
\* is, field for field, the recorded attempt of the first such candidate and
\* every candidate before it was tried and recorded something else; if
\* none recorded 200, every candidate of the script was tried.  In
\* particular, when only https://www.<name> answers 200 on HEAD and all
\* others fail by connection error, the response is that HEAD.
C2_EarliestOkWins ==
    pc = "return" =>
        /\ \A p, q \in Positions : p < q => log[p].block <= log[q].block
        /\ \A p \in OkPositions :
            /\ \A q \in RecordedPositions : q < p => q \notin OkPositions
            /\ domain_response = log[p].response
            /\ TriedBlocks = {b \in CandidateBlocks : b <= log[p].block}
        /\ OkPositions = {} => TriedBlocks = CandidateBlocks
        /\ ( /\ \E p \in Positions :
                   /\ log[p].response.request_url = "https://www." \o domain
                   /\ log[p].response.request_type = "head"
                   /\ log[p].response.status_code = 200
             /\ \A p \in Positions :
                   log[p].response.request_url # "https://www." \o domain
                       => log[p].response.exception_name = "ConnectionError" )
           => /\ domain_response.request_url = "https://www." \o domain
              /\ domain_response.request_type = "head"
              /\ domain_response.status_code = 200

\* The scenario of the specification under the http-first order: three
\* connection errors, then https://www.ex.io answers 200 on HEAD.
C2_Witness ==
    /\ pc = "return"
    /\ script = "check_domains.py"
    /\ Len(log) = 4
    /\ \A p \in 1..3 : log[p].response.exception_name = "ConnectionError"
    /\ log[4].response.request_url = "https://www.ex.io"
    /\ log[4].response.status_code = 200
    /\ domain_response.request_url = "https://www.ex.io"
    /\ domain_response.request_type = "head"

----------------------------------------------------------------------------
(* C3 - a response is preferred over a failure *)

\* C3: whenever the probe is between candidates or has returned, the
\* running response carries a status code exactly when the recorded attempt
\* of some tried candidate does, and then it carries no exception name; it
\* is a failure (an exception name, no status code) only when the recorded
\* attempt of every tried candidate is a failure.
C3_ResponsePreferred ==
    (BetweenCandidates /\ OkPositions = {}) =>
        /\ StatusPositions # {} =>
              /\ domain_response.status_code # NoStatus
              /\ domain_response.exception_name = None
        /\ domain_response.status_code = NoStatus =>
              /\ domain_response.exception_name # None
              /\ \A p \in RecordedPositions :
                    /\ log[p].response.status_code = NoStatus
                    /\ log[p].response.exception_name # None

\* A name whose first candidates failed and whose last candidate answered
\* 404: the returned response carries the 404.
C3_Witness ==
    /\ pc = "return"
    /\ Len(log) >= 4
    /\ log[1].response.exception_name # None
    /\ \E p \in StatusPositions : log[p].block = 4
    /\ \A p \in StatusPositions : log[p].block = 4
    /\ domain_response.status_code = 404

----------------------------------------------------------------------------
(* C4 - the preference law *)

\* A failure and a status-bearing attempt of a later candidate, both
\* recorded for the current name.
PreferencePairs ==
    {pq \in RecordedPositions \X RecordedPositions :
        /\ log[pq[1]].response.status_code = NoStatus
        /\ log[pq[2]].response.status_code # NoStatus
        /\ log[pq[2]].block > 1}

\* The first recorded attempt that carries a status code.
FirstStatusPosition ==
    CHOOSE p \in StatusPositions : \A q \in StatusPositions : p <= q

\* C4 as stated: when no 200 was found, for any recorded failure and any
\* status-bearing recorded attempt of a candidate after the first, the
\* returned response is that status-bearing attempt (request_url and
\* status_code), whichever of the two was tried first.
C4_PreferenceLawAsStated ==
    (pc = "return" /\ OkPositions = {}) =>
        \A pq \in PreferencePairs :
            /\ domain_response.request_url = log[pq[2]].response.request_url
            /\ domain_response.status_code = log[pq[2]].response.status_code

\* C4 amended: when no 200 was found, for any recorded failure and any
\* status-bearing recorded attempt of a candidate after the first, the
\* returned response is the earliest status-bearing recorded attempt of the
\* name, whichever of the two was tried first; it is the status-bearing
\* attempt of the pair when no earlier candidate recorded a status code.
C4_PreferenceLaw ==
    (pc = "return" /\ OkPositions = {}) =>
        \A pq \in PreferencePairs :
            /\ domain_response = log[FirstStatusPosition].response
            /\ (\A q \in StatusPositions : pq[2] <= q)
                   => domain_response = log[pq[2]].response

\* The status-bearing attempt of a later candidate is returned both
\* against a failure tried before it and against a failure tried after it,
\* although a still later candidate answered with another status code.
C4_Witness ==
    /\ pc = "return"
    /\ OkPositions = {}
    /\ \E pq \in PreferencePairs :
          /\ pq[1] < pq[2]
          /\ domain_response = log[pq[2]].response
    /\ \E pq \in PreferencePairs :
          /\ pq[2] < pq[1]
          /\ domain_response = log[pq[2]].response
    /\ \E p \in StatusPositions :
          log[p].response.status_code # domain_response.status_code

----------------------------------------------------------------------------
(* C5 - the escalation law *)

\* C5: a HEAD answered 405 is, for every candidate, followed at once by the
\* GET request to the same URL (or the probe is about to issue it); the
\* request that closes a candidate is never a HEAD answered 405; the
\* attempt handed to the merge is the closing request of the candidate (the
\* GET, whatever its result), and the running response is always one of the
\* recorded attempts, hence never the HEAD 405.
C5_EscalationLaw ==
    /\ \A p \in Positions :
          (log[p].response.request_type = "head"
               /\ log[p].response.status_code = 405) =>
              IF p = Len(log)
              THEN pc = "get" /\ k = log[p].block
              ELSE /\ log[p + 1].response.request_type = "get"
                   /\ log[p + 1].response.request_url
                          = log[p].response.request_url
                   /\ log[p + 1].block = log[p].block
    /\ (BetweenCandidates /\ log # <<>>) =>
          /\ IsRecorded(Len(log))
          /\ IF log[Len(log)].block = 1
             THEN domain_response = log[Len(log)].response
             ELSE new_domain_response = log[Len(log)].response
          /\ \E p \in RecordedPositions : domain_response = log[p].response
          /\ ~ (domain_response.request_type = "head"
                    /\ domain_response.status_code = 405)

\* The first candidate answered 405 to HEAD and its GET raised; a later
\* candidate answered 405 to HEAD and 405 again to GET; the returned
\* response is that GET.
C5_Witness ==
    /\ pc = "return"
    /\ Len(log) >= 4
    /\ log[1].response.status_code = 405
    /\ log[2].response.request_type = "get"
    /\ log[2].response.exception_name # None
    /\ domain_response.request_type = "get"
    /\ domain_response.status_code = 405
    /\ domain_response.request_url # log[1].response.request_url

----------------------------------------------------------------------------
(* C6 - a single escalation and no other retry *)

\* C6: every GET request comes immediately after a HEAD request to the same
\* URL that was answered 405; two requests go to the same URL only as such
\* a HEAD-GET pair, so that a URL receives at most one HEAD and one GET, a
\* HEAD that raised or was answered otherwise is the only request to its
\* URL, and no request follows a GET to the same URL.
C6_SingleEscalation ==
    /\ \A p \in Positions :
          log[p].response.request_type = "get" =>
              /\ p > 1
              /\ log[p - 1].response.request_type = "head"
              /\ log[p - 1].response.status_code = 405
              /\ log[p - 1].response.request_url = log[p].response.request_url
    /\ \A p, q \in Positions :
          (p < q /\ log[p].response.request_url = log[q].response.request_url)
              => /\ q = p + 1
                 /\ log[p].response.request_type = "head"
                 /\ log[p].response.status_code = 405
                 /\ log[q].response.request_type = "get"

\* A GET answered 405, a GET that raised and a HEAD that raised, each
\* followed by a request to the next candidate, and a HEAD answered 404.
C6_Witness ==
    /\ pc = "return"
    /\ \E p \in Positions :
          /\ p < Len(log)
          /\ log[p].response.request_type = "get"
          /\ log[p].response.status_code = 405
    /\ \E p \in Positions :
          /\ p < Len(log)
          /\ log[p].response.request_type = "get"
          /\ log[p].response.exception_name # None
    /\ \E p \in Positions :
          /\ p < Len(log)
          /\ log[p].response.request_type = "head"
          /\ log[p].response.exception_name # None
    /\ \E p \in Positions :
          /\ log[p].response.request_type = "head"
          /\ log[p].response.status_code = 404

----------------------------------------------------------------------------
(* C7 - a status code other than 200 is sticky *)

\* The running response holds a status code other than 200 and the first
\* candidate is over.
HoldsOtherStatus ==
    /\ pc \in {"guard", "head", "get"}
    /\ k > 1
    /\ domain_response.status_code # NoStatus
    /\ domain_response.status_code # 200

\* C7: once the running response holds a status code other than 200 after
\* some candidate, a step of a later candidate leaves all its fields
\* unchanged unless the attempt recorded by that step has status code 200
\* (and then the response becomes that attempt); another status code or a
\* failure never replaces it.
C7_OtherStatusSticky ==
    [][ HoldsOtherStatus =>
            \/ domain_response' = domain_response
            \/ /\ new_domain_response'.status_code = 200
               /\ domain_response' = new_domain_response' ]_vars

\* The first candidate answered 404, later candidates recorded a 405 and a
\* failure, and the 404 of the first candidate was returned.
C7_Witness ==
    /\ pc = "return"
    /\ log # <<>>
    /\ log[1].response.status_code = 404
    /\ domain_response = log[1].response
    /\ \E p \in RecordedPositions :
          log[p].block > 1 /\ log[p].response.status_code = 405
    /\ \E p \in RecordedPositions :
          log[p].block > 1 /\ log[p].response.status_code = NoStatus

----------------------------------------------------------------------------
(* C8 - the first failure is retained *)

\* C8: when the probe has returned and the recorded attempt of every
\* candidate is a failure, the returned response is the recorded attempt of
\* the first candidate: its request_url, request_type and exception name.
C8_FirstFailureRetained ==
    (pc = "return" /\ StatusPositions = {}) =>
        \E p \in RecordedPositions :
            /\ log[p].block = 1
            /\ domain_response = log[p].response
            /\ domain_response.request_url
                   = Blocks(script)[1].scheme \o Blocks(script)[1].subdomain
                         \o domain
            /\ domain_response.exception_name # None

\* Four candidates failed, the first with a connection error and the last
\* with a read timeout: the connection error of the first was returned.
C8_Witness ==
    /\ pc = "return"
    /\ StatusPositions = {}
    /\ TriedBlocks = {1, 2, 3, 4}
    /\ log[1].response.exception_name = "ConnectionError"
    /\ log[Len(log)].response.exception_name = "ReadTimeout"
    /\ domain_response.exception_name = "ConnectionError"
    /\ domain_response.request_url # log[Len(log)].response.request_url

----------------------------------------------------------------------------
(* C9 - 200 is absorbing *)

\* The name is being resolved and the first candidate is over.
Resolving == pc \in {"guard", "get"} \/ (pc = "head" /\ k > 1)

\* C9: once the running response has status code 200, no step changes any
\* of its fields before it is returned, and no further request is issued;
\* and a candidate of the script is passed over without a request only
\* when the running response has status code 200.
C9_OkAbsorbing ==
    [][ /\ (Resolving /\ domain_response.status_code = 200) =>
              /\ domain_response' = domain_response
              /\ pc' \notin {"head", "get"}
        /\ (pc = "guard" /\ pc' # "head" /\ k \in CandidateBlocks) =>
              domain_response.status_code = 200 ]_vars

\* The probe is passing over the third candidate with a 200 in hand.
C9_Witness ==
    /\ pc = "guard"
    /\ k = 3
    /\ domain_response.status_code = 200
    /\ log # <<>>
    /\ domain_response = log[Len(log)].response

----------------------------------------------------------------------------
(* C10 - "www." idempotence *)

\* C10: for a name that already starts with "www.", no request goes to a
\* URL in which the prefix is doubled.
C10_NoDoubledPrefix ==
    startswith(domain, "www.") =>
        \A p \in Positions :
            ~ contains(log[p].response.request_url, "www.www.")

----------------------------------------------------------------------------
(* C11 - the order of the candidates *)

IsHead(entry) == entry.response.request_type = "head"

\* The URLs of the HEAD requests issued for the current name, in order.
HeadUrls ==
    LET heads == SelectSeq(log, IsHead)
    IN  [p \in 1..Len(heads) |-> heads[p].response.request_url]

\* C11: when the probe has returned for a name that does not start with
\* "www." and no candidate recorded 200, the HEAD requests went to exactly
\* four URLs: https://n, https://www.n, http://n, http://www.n in
\* check_cc_domains.py and check_cc_hostnames.py, and http://n,
\* http://www.n, https://n, https://www.n in check_domains.py and
\* request_domains.py.
C11_CandidateOrder ==
    (pc = "return" /\ ~startswith(domain, "www.") /\ OkPositions = {}) =>
        HeadUrls =
            IF script \in {"check_cc_domains.py", "check_cc_hostnames.py"}
            THEN << "https://" \o domain, "https://www." \o domain,
                    "http://" \o domain, "http://www." \o domain >>
            ELSE << "http://" \o domain, "http://www." \o domain,
                    "https://" \o domain, "https://www." \o domain >>

\* check_cc_hostnames.py has tried the four candidates of ex.io, with a
\* GET among the requests, and none recorded 200.
C11_Witness ==
    /\ pc = "return"
    /\ script = "check_cc_hostnames.py"
    /\ domain = "ex.io"
    /\ OkPositions = {}
    /\ Len(log) > 4
    /\ Len(HeadUrls) = 4

----------------------------------------------------------------------------
(* C12 - the order announced by check_cc_domains.py *)

\* C12: check_cc_domains.py sends its HEAD requests in the order of its
\* module description: http://d, http://www.d, https://d, https://www.d.
C12_DescribedOrder ==
    script = "check_cc_domains.py" =>
        \A p \in 1..Len(HeadUrls) :
            HeadUrls[p] =
                << "http://" \o domain, "http://www." \o domain,
                   "https://" \o domain, "https://www." \o domain >>[p]

----------------------------------------------------------------------------
(* C13 - the probe never raises *)

\* C13: the script is never aborted by an exception; every request that
\* raised is logged as an attempt with an exception name and no status
\* code, status reason or response URL; and when the script is done it has
\* written exactly one record per name.
C13_NeverRaises ==
    /\ pc # "aborted"
    /\ \A p \in Positions :
          log[p].response.exception_name # None =>
              /\ log[p].response.status_code = NoStatus
              /\ log[p].response.status_reason = None
              /\ log[p].response.response_url = None
    /\ pc = "return" => domain_response.domain = domain
    /\ pc = "done" => Len(rows) = Len(names)

\* The empty name: every request raised, a GET among them, and the probe
\* returned a failure.
C13_Witness ==
    /\ pc = "return"
    /\ domain = ""
    /\ \E p \in Positions :
          /\ log[p].response.request_type = "get"
          /\ log[p].response.exception_name # None
    /\ \A p \in RecordedPositions : log[p].response.exception_name # None
    /\ domain_response.exception_name # None
    /\ domain_response.status_code = NoStatus

----------------------------------------------------------------------------
(* C14 - continuation until the candidates are exhausted *)

\* The block of the last request issued for the current name.
LastBlock == log[Len(log)].block

\* The candidates of the script that come after block b.
LaterCandidates(b) == {c \in CandidateBlocks : c > b}

\* The candidate of block b is over, the running response is a failure or
\* a status code other than 200, and b is not the last candidate.
MustContinue(b) ==
    /\ log # <<>>
    /\ IsRecorded(Len(log))
    /\ LastBlock = b
    /\ domain_response.status_code # 200
    /\ LaterCandidates(b) # {}

\* A HEAD request to the candidate that follows block b has been issued.
NextRequested(b) ==
    \E p \in Positions :
        /\ IsHead(log[p])
        /\ log[p].block \in LaterCandidates(b)
        /\ \A c \in LaterCandidates(b) : log[p].block <= c

\* C14: while a candidate that is not the last one is over with a failure
\* or a status code other than 200, the probe has not returned, the next
\* request it issues is the HEAD request of the following candidate, and
\* that request is eventually issued; the probe returns a response without
\* status 200 only after every candidate of the script has been tried.
C14_Continuation ==
    /\ [](\A b \in 1..3 : MustContinue(b) => pc \in {"guard", "head"})
    /\ [][\A b \in 1..3 :
            (MustContinue(b) /\ log' # log) =>
                /\ Len(log') = Len(log) + 1
                /\ NextRequested(b)'
                /\ IsHead(log'[Len(log')])]_vars
    /\ \A b \in 1..3 : MustContinue(b) ~> NextRequested(b)
    /\ []((pc = "return" /\ domain_response.status_code # 200)
              => TriedBlocks = CandidateBlocks)

\* The second candidate is over with a 404 in hand after the first one
\* failed, and the probe is about to go on to the third.
C14_Witness ==
    /\ pc = "guard"
    /\ MustContinue(2)
    /\ k = 3
    /\ domain_response.status_code = 404
    /\ log[1].response.exception_name # None

----------------------------------------------------------------------------
(* C15 - exactly one alternative of a response is populated *)

\* Either an exception name and no status code, status reason or response
\* URL, or a status code with its reason and response URL and no exception
\* name.
ExactlyOneAlternative(response) ==
    \/ /\ response.exception_name # None
       /\ response.status_code = NoStatus
       /\ response.status_reason = None
       /\ response.response_url = None
    \/ /\ response.exception_name = None
       /\ response.status_code # NoStatus
       /\ response.status_reason # None
       /\ response.response_url # None

\* C15: every response built by make_request, the running response once
\* the first request of a name was made, the response of the current later
\* block once it was requested, and every record written have exactly one
\* of the two alternatives populated.
C15_ExactlyOneAlternative ==
    /\ \A p \in Positions : ExactlyOneAlternative(log[p].response)
    /\ domain_response # Unbound => ExactlyOneAlternative(domain_response)
    /\ new_domain_response # Unbound
           => ExactlyOneAlternative(new_domain_response)
    /\ \A p \in 1..Len(rows) : ExactlyOneAlternative(rows[p])

\* A failure was replaced by a status-bearing attempt and later attempts
\* failed again: the returned response has a status code and no exception
\* name.
C15_Witness ==
    /\ pc = "return"
    /\ Len(log) >= 3
    /\ log[1].response.exception_name # None
    /\ log[Len(log)].response.exception_name # None
    /\ domain_response.status_code = 404
    /\ domain_response.exception_name = None
    /\ domain_response.request_url # log[1].response.request_url

----------------------------------------------------------------------------
(* C16 - the counters sum law *)

\* C16: in every state of a batch run, hence after any number of processed
\* names, the three tallies add up to the total count of names.
C16_CountersSum ==
    counters.total_200_status + counters.total_other_status
        + counters.total_exceptions = counters.total_domains

\* A batch of two names is done: one name ended with a status code other
\* than 200 and one with a failure.
C16_Witness ==
    /\ pc = "done"
    /\ counters.total_domains = 2
    /\ counters.total_other_status = 1
    /\ counters.total_exceptions = 1
    /\ counters.total_200_status = 0

----------------------------------------------------------------------------
(* C17 - once per name *)

\* The names whose response has been tallied and written.
Processed == IF pc = "done" THEN Len(names) ELSE i - 1

\* C17: the counters and the output change only in the step that follows
\* the return of the probe, which counts the name once and writes the
\* returned response as one record; so the total counter and the number of
\* records both equal the number of names processed so far, the p-th
\* record is that of the p-th name, and after the batch both equal the
\* number of input names.
C17_OncePerName ==
    /\ [](/\ counters.total_domains = Processed
          /\ Len(rows) = Processed
          /\ \A p \in 1..Len(rows) : rows[p].domain = names[p]
          /\ pc = "done" => /\ counters.total_domains = Len(names)
                            /\ Len(rows) = Len(names))
    /\ [][(counters' # counters \/ rows' # rows) =>
              /\ pc = "return"
              /\ counters'.total_domains = counters.total_domains + 1
              /\ rows' = Append(rows, domain_response)
              /\ domain_response.domain = names[i]]_vars

\* A batch of two names is done; the first name ended in a failure.
C17_Witness ==
    /\ pc = "done"
    /\ Len(names) = 2
    /\ Len(rows) = 2
    /\ counters.total_domains = 2
    /\ rows[1].exception_name # None
    /\ rows[2].status_code # NoStatus

----------------------------------------------------------------------------
(* C18 - bounded work and termination *)

RequestsOf(b) == {p \in Positions : log[p].block = b}

\* C18: resolving one name takes at most 8 requests: at most 4 candidates
\* were requested, each with at most one HEAD and at most one GET; and,
\* every request completing or failing, the probe returns and the script
\* finishes.
C18_BoundedWork ==
    /\ [](/\ Len(log) <= 8
          /\ Cardinality(TriedBlocks) <= 4
          /\ \A b \in TriedBlocks :
                /\ Cardinality(RequestsOf(b)) <= 2
                /\ Cardinality({p \in RequestsOf(b) : IsHead(log[p])}) = 1)
    /\ <>(pc = "return")
    /\ <>(pc = "done")

\* The worst case: the probe returned after 8 requests.
C18_Witness ==
    /\ pc = "return"
    /\ Len(log) = 8
    /\ Cardinality(TriedBlocks) = 4

----------------------------------------------------------------------------
(* C19 - a 200 obtained by escalation *)

\* C19: once the GET request to https://n has been answered 200 (after the
\* HEAD request to https://n was answered 405), it is the last request
\* issued for the name, the probe only skips the later candidates and
\* returns, and the running response, which is the one returned, has
\* request_url https://n, request_type "get" and status_code 200.
C19_EscalatedOk ==
    \A p \in Positions :
        ( /\ log[p].response.request_url = "https://" \o domain
          /\ log[p].response.request_type = "get"
          /\ log[p].response.status_code = 200 ) =>
            /\ p > 1
            /\ log[p - 1].response.request_url = "https://" \o domain
            /\ log[p - 1].response.request_type = "head"
            /\ log[p - 1].response.status_code = 405
            /\ p = Len(log)
            /\ BetweenCandidates
            /\ domain_response.request_url = "https://" \o domain
            /\ domain_response.request_type = "get"
            /\ domain_response.status_code = 200
            /\ domain_response.response_url = log[p].response.response_url

\* check_domains.py: http://ex.io answered 404, http://www.ex.io failed,
\* https://ex.io answered 405 to HEAD and 200 to GET; the probe returned
\* that GET without a request to https://www.ex.io.
C19_Witness ==
    /\ pc = "return"
    /\ script = "check_domains.py"
    /\ domain = "ex.io"
    /\ Len(log) = 4
    /\ log[1].response.status_code = 404
    /\ log[2].response.exception_name # None
    /\ log[3].response.status_code = 405
    /\ log[4].response.request_url = "https://ex.io"
    /\ log[4].response.status_code = 200
    /\ domain_response = log[4].response
    /\ domain_response.request_type = "get"

----------------------------------------------------------------------------
(* C20 - strictly sequential requests *)

\* C20: within one name the requests go candidate by candidate: a request
\* to a later candidate comes only after the candidate before it is over
\* (its HEAD, and its GET if the HEAD was answered 405), and the GET of a
\* candidate comes right after its HEAD.  Across names: every request in
\* flight belongs to the current name, and when the first request of a
\* name is issued the records of all the names before it have been written
\* and counted, in the order of the names.
C20_Sequential ==
    /\ \A p, q \in Positions : p < q => log[p].block <= log[q].block
    /\ \A p \in Positions :
          p < Len(log) =>
              IF log[p + 1].block = log[p].block
              THEN ~ IsRecorded(p) /\ ~ IsHead(log[p + 1])
              ELSE IsRecorded(p) /\ IsHead(log[p + 1])
    /\ \A p \in Positions : log[p].response.domain = names[i]
    /\ log # <<>> =>
          /\ Len(rows) = i - 1
          /\ counters.total_domains = i - 1
          /\ \A p \in 1..Len(rows) : rows[p].domain = names[p]

\* The second name of a batch is at its third request, the GET of its
\* second candidate, and the record of the first name is written.
C20_Witness ==
    /\ i = 2
    /\ Len(log) = 3
    /\ log[3].block = 2
    /\ log[3].response.request_type = "get"
    /\ Len(rows) = 1
    /\ rows[1].domain = names[1]

----------------------------------------------------------------------------
(* C21 - check_cc_hostnames.py on a hostname that starts with "www." *)

\* The response the two rules select among the attempts recorded so far:
\* the earliest 200, else the earliest with a status code, else the earliest.
Selected ==
    LET Earliest(S) == CHOOSE p \in S : \A q \in S : p <= q
    IN  IF OkPositions # {} THEN log[Earliest(OkPositions)].response
        ELSE IF StatusPositions # {}
             THEN log[Earliest(StatusPositions)].response
             ELSE log[Earliest(RecordedPositions)].response

----------------------------------------------------------------------------
(* C22 - a response beats a failure, request by request *)

\* The requests of the current name that were answered with a status code.
AnsweredPositions ==
    {p \in Positions : log[p].response.status_code # NoStatus}

\* The HEAD request at position p was answered 405 and the GET request that
\* replaced it failed.
ReplacedByFailedGet(p) ==
    /\ IsHead(log[p])
    /\ log[p].response.status_code = 405
    /\ p < Len(log)
    /\ log[p + 1].block = log[p].block
    /\ log[p + 1].response.request_type = "get"
    /\ log[p + 1].response.exception_name # None

\* C22 as stated: when the probe returns and any request of the name, a
\* HEAD answered 405 included, was answered with a status code, the
\* returned response carries a status code and no exception name.
C22_AnyAnswerBeatsFailure ==
    (pc = "return" /\ AnsweredPositions # {}) =>
        /\ domain_response.status_code # NoStatus
        /\ domain_response.exception_name = None

\* C22, amended: when the probe returns and some request of the name was
\* answered with a status code, the returned response carries a status code
\* and no exception name, unless every such answer was the 405 of a HEAD
\* request that the failed GET request of the same candidate replaced; in
\* that case the returned response is a failure.
C22_RecordedAnswerBeatsFailure ==
    (pc = "return" /\ AnsweredPositions # {}) =>
        IF \A p \in AnsweredPositions : ReplacedByFailedGet(p)
        THEN /\ domain_response.status_code = NoStatus
             /\ domain_response.exception_name # None
        ELSE /\ domain_response.status_code # NoStatus
             /\ domain_response.exception_name = None

\* The first candidate answered 405 to HEAD and its GET failed, the second
\* candidate failed, the third answered 404: the 404 is returned.
C22_Witness ==
    /\ pc = "return"
    /\ Len(log) >= 4
    /\ ReplacedByFailedGet(1)
    /\ log[3].response.exception_name # None
    /\ log[4].response.status_code = 404
    /\ domain_response.status_code = 404
    /\ domain_response.exception_name = None

----------------------------------------------------------------------------
(* C23 - what each counter counts *)

\* The step that tallies the returned response adds one to the counter c.
Tallied(c) == counters'[c] = counters[c] + 1

\* C23 as stated: the name is counted under total_200_status iff the
\* returned response has status code 200, under total_other_status iff it
\* has another status code, and under total_exceptions iff every request
\* issued for the name ended in an exception.
C23_ClassificationAsStated ==
    [][pc = "return" =>
          /\ Tallied("total_200_status") <=>
                 domain_response.status_code = 200
          /\ Tallied("total_other_status") <=>
                 domain_response.status_code \notin {200, NoStatus}
          /\ Tallied("total_exceptions") <=> AnsweredPositions = {}]_vars

\* C23, amended: the name is counted under total_200_status iff the
\* returned response has status code 200, under total_other_status iff it
\* has another status code, and under total_exceptions iff it has no
\* status code, which is when the attempt recorded for every tried
\* candidate ended in an exception: every request of the name either
\* failed or was a HEAD request answered 405 whose GET request failed.
C23_Classification ==
    [][pc = "return" =>
          /\ Tallied("total_200_status") <=>
                 domain_response.status_code = 200
          /\ Tallied("total_other_status") <=>
                 domain_response.status_code \notin {200, NoStatus}
          /\ Tallied("total_exceptions") <=>
                 domain_response.status_code = NoStatus
          /\ Tallied("total_exceptions") <=>
                 \A p \in Positions :
                     \/ log[p].response.exception_name # None
                     \/ ReplacedByFailedGet(p)
          /\ ~ Tallied("total_200_status") =>
                 counters'.total_200_status = counters.total_200_status
          /\ ~ Tallied("total_other_status") =>
                 counters'.total_other_status = counters.total_other_status
          /\ ~ Tallied("total_exceptions") =>
                 counters'.total_exceptions = counters.total_exceptions]_vars

\* A name was counted under total_exceptions although a HEAD request was
\* answered: the record written is that of a failed GET request.
C23_Witness ==
    /\ pc = "done"
    /\ counters.total_exceptions = 1
    /\ counters.total_domains = 1
    /\ rows[1].request_type = "get"
    /\ rows[1].exception_name # None

----------------------------------------------------------------------------
(* C24, C25 - the copies of the probe, on the same answers *)

\* The requests issued for the current name, by URL and request type.
LogRequests ==
    [p \in Positions |->
        <<log[p].response.request_url, log[p].response.request_type>>]

\* What requests.head or requests.get gave for a logged response.
ResultOf(response) ==
    IF response.exception_name # None
    THEN [raised |-> TRUE, exception_name |-> response.exception_name]
    ELSE [raised |-> FALSE, status_code |-> response.status_code,
          url |-> response.response_url]

\* Every request any script can issue for the current name.
AllRequests ==
    {<<c.scheme \o c.subdomain \o domain, t>> :
        c \in {HttpFirst[b] : b \in 1..4}, t \in {"head", "get"}}

\* The assignment of results to requests that the servers have made while
\* the running script resolved the current name; a request that the
\* running script did not issue is left unanswered.
LogAnswers ==
    [r \in AllRequests |->
        IF \E p \in Positions : LogRequests[p] = r
        THEN ResultOf(log[CHOOSE p \in Positions :
                              LogRequests[p] = r].response)
        ELSE [raised |-> TRUE, exception_name |-> "Unanswered"]]

\* C24: when the loop of request_domains.py has resolved a name,
\* get_domain_response of check_domains.py, given the same answers,
\* issues the same requests in the same order, returns a response equal
\* in all seven fields, and Counters.increment counts it as the inline
\* counters do.
C24_InlineCopy ==
    (script = "request_domains.py" /\ pc = "return") =>
        LET other == get_domain_response("check_domains.py", domain,
                                         LogAnswers)
        IN  /\ other.requests = LogRequests
            /\ other.response = domain_response
            /\ increment(counters, other.response.status_code) =
                   count_inline(counters, domain_response.status_code)

\* request_domains.py on ex.io: three candidates failed, the GET to the
\* third after a 405, and https://www.ex.io answered 404 and redirected.
C24_Witness ==
    /\ script = "request_domains.py"
    /\ pc = "return"
    /\ domain = "ex.io"
    /\ Len(log) = 5
    /\ log[3].response.status_code = 405
    /\ log[4].response.exception_name # None
    /\ domain_response.request_url = "https://www.ex.io"
    /\ domain_response.status_code = 404
    /\ domain_response.response_url = "https://www.ex.io/"

\* The six fields that HostResponse and DomainResponse have in common.
SameButName(a, b) ==
    /\ a.request_url = b.request_url
    /\ a.request_type = b.request_type
    /\ a.exception_name = b.exception_name
    /\ a.status_code = b.status_code
    /\ a.status_reason = b.status_reason
    /\ a.response_url = b.response_url

\* C25: when get_host_response of check_cc_hostnames.py has resolved a
\* name, get_domain_response of check_cc_domains.py, given the same
\* answers, issues the same requests in the same order and returns a
\* response with the same six fields, if the name does not start with
\* "www."; if it does, the requests are the same only when the first
\* candidate ended the probe.
C25_HostnamesCopy ==
    (script = "check_cc_hostnames.py" /\ pc = "return") =>
        LET other == get_domain_response("check_cc_domains.py", domain,
                                         LogAnswers)
        IN  IF startswith(domain, "www.")
            THEN other.requests = LogRequests <=> TriedBlocks = {1}
            ELSE /\ other.requests = LogRequests
                 /\ SameButName(other.response, domain_response)

\* check_cc_hostnames.py on ex.io: https://ex.io failed, and
\* https://www.ex.io answered 405 to HEAD and 200 to GET.
C25_Witness ==
    /\ script = "check_cc_hostnames.py"
    /\ pc = "return"
    /\ domain = "ex.io"
    /\ Len(log) = 3
    /\ log[1].response.exception_name # None
    /\ log[2].response.status_code = 405
    /\ domain_response.request_url = "https://www.ex.io"
    /\ domain_response.request_type = "get"
    /\ domain_response.status_code = 200

----------------------------------------------------------------------------
(* C26 - the trace of a GET request *)

\* The response stems from a GET request of the current name that came
\* right after a HEAD request to the same URL that was answered 405.
StemsFromEscalation(response) ==
    \E p \in Positions :
        /\ p > 1
        /\ log[p].response = response
        /\ log[p - 1].block = log[p].block
        /\ log[p - 1].response.request_type = "head"
        /\ log[p - 1].response.request_url = response.request_url
        /\ log[p - 1].response.status_code = 405

\* C26: whenever the probe is between candidates or has returned, a running
\* response with status code 405 has request_type "get", and a running
\* response with request_type "get" is the response to a GET request
\* issued after the HEAD request to the same request_url was answered 405;
\* a record written with status code 405 has request_type "get".
C26_EscalationTrace ==
    /\ BetweenCandidates =>
          /\ domain_response.status_code = 405 =>
                 domain_response.request_type = "get"
          /\ domain_response.request_type = "get" =>
                 StemsFromEscalation(domain_response)
          /\ domain_response.request_type \in {"head", "get"}
    /\ \A p \in 1..Len(rows) :
          rows[p].status_code = 405 => rows[p].request_type = "get"

\* The first candidate failed; the second answered 405 to HEAD and to GET:
\* the 405 returned is that of the GET request.
C26_Witness ==
    /\ pc = "return"
    /\ Len(log) >= 3
    /\ log[1].response.exception_name # None
    /\ log[2].response.status_code = 405
    /\ log[3].response.status_code = 405
    /\ domain_response = log[3].response
    /\ domain_response.request_type = "get"

----------------------------------------------------------------------------
(* C27 - no partial update *)

\* C27: whenever the probe is between candidates or has returned, in each
\* of the four scripts, the running response equals in all seven fields
\* the response to one request issued for the current name; its domain is
\* the name being resolved and its request_url is scheme, subdomain and
\* name of a candidate that was tried.
C27_NoPartialUpdate ==
    BetweenCandidates =>
        /\ \E p \in Positions : domain_response = log[p].response
        /\ domain_response.domain = domain
        /\ \E b \in TriedBlocks :
               domain_response.request_url =
                   Blocks(script)[b].scheme \o Blocks(script)[b].subdomain
                       \o domain

\* request_domains.py: the first candidate failed and the response to a
\* later request, which was answered 404 after a redirect, was copied
\* over it field by field.
C27_Witness ==
    /\ script = "request_domains.py"
    /\ pc = "return"
    /\ domain = "ex.io"
    /\ log[1].response.exception_name # None
    /\ \E p \in Positions :
          /\ p > 1
          /\ log[p].block = 2
          /\ domain_response = log[p].response
          /\ domain_response.status_code = 404
          /\ domain_response.response_url = "https://www.ex.io/"

----------------------------------------------------------------------------
(* C28 - the page count over several index files *)

\* The number of records of a file that match the hostname.
RECURSIVE MatchesIn(_, _)
MatchesIn(file, hostname) ==
    IF file = <<>>
    THEN 0
    ELSE (IF search(tld, Head(file)) = hostname THEN 1 ELSE 0)
             + MatchesIn(Tail(file), hostname)

\* The number of records of all the files from the f-th on that match the
\* hostname.
RECURSIVE TotalMatches(_, _)
TotalMatches(f, hostname) ==
    IF f > Len(files)
    THEN 0
    ELSE MatchesIn(files[f], hostname) + TotalMatches(f + 1, hostname)

\* C28: when extract_hostnames_for_tld.py or extract_domains_for_tld.py has
\* written its output, there is one line for each hostname that matched in
\* some file, and its page count, the last column, is the number of the
\* matching records of that hostname in all the files given.
C28_TotalPageCount ==
    (script \in Extractors /\ pc = "done") =>
        /\ {rows[j][1] : j \in 1..Len(rows)} =
              {h \in CdxHosts : TotalMatches(1, h) > 0}
        /\ \A j \in 1..Len(rows) :
              rows[j][Len(rows[j])] = str(TotalMatches(1, rows[j][1]))

----------------------------------------------------------------------------
(* C29 - the merge keeps the latest data set *)

\* The input files, by number, that have a row for the hostname.
FilesWith(hostname) ==
    {f \in 1..Len(files) :
        \E r \in 1..Len(files[f].rows) : files[f].rows[r][1] = hostname}

\* The row for the hostname in the last input file that has one.
LatestRow(hostname) ==
    LET f == CHOOSE g \in FilesWith(hostname) :
                 \A h \in FilesWith(hostname) : h <= g
        r == CHOOSE q \in 1..Len(files[f].rows) :
                 files[f].rows[q][1] = hostname
    IN  <<hostname, files[f].rows[r][2], files[f].data_set,
          files[f].rows[r][3]>>

\* C29: when merge_cc_data.py has written its output, the output has one
\* row for each hostname found in some input file and no two rows for the
\* same hostname, and the row of a hostname holds the domain and the page
\* count of its row in the last data set, in the order given, whose file has
\* the hostname, with the name of that data set.
C29_LatestDataSet ==
    (script = "merge_cc_data.py" /\ pc = "done") =>
        /\ {rows[j][1] : j \in 1..Len(rows)} =
              {h \in MergeHosts : FilesWith(h) # {}}
        /\ \A j, m \in 1..Len(rows) : rows[j][1] = rows[m][1] => j = m
        /\ \A j \in 1..Len(rows) : rows[j] = LatestRow(rows[j][1])

\* Two data sets were merged: b.a.science is in the first only and keeps
\* its row; a.science is in both, with 2 pages and then 1 page, and has
\* the row of the second.
C29_Witness ==
    /\ script = "merge_cc_data.py"
    /\ pc = "done"
    /\ Len(files) = 2
    /\ files[1].data_set = "2025-05"
    /\ files[2].data_set = "2024-51"
    /\ files[1].rows = << <<"a.science", "a.science", "2">>,
                          <<"b.a.science", "a.science", "1">> >>
    /\ files[2].rows = << <<"a.science", "a.science", "1">> >>
    /\ rows = << <<"a.science", "a.science", "2024-51", "1">>,
                 <<"b.a.science", "a.science", "2025-05", "1">> >>

----------------------------------------------------------------------------
(* C30 - the reduction of a hostname to its domain *)

\* The last two labels of a hostname, or the hostname if it has at most two.
LastTwoLabels(hostname) ==
    LET l == CHOOSE m \in LabelLists : join(m) = hostname
    IN  IF Len(l) > 2 THEN join(SubSeq(l, Len(l) - 1, Len(l))) ELSE hostname

\* The hostnames read from the input file.
InputHostnames ==
    {IF script = "reduce_domains.py"
     THEN split_first(files[1][j])
     ELSE files[1][j] : j \in 1..Len(files[1])}

\* C30: when extract_hostnames_for_tld.py has written its output, the
\* domain of every row is the last two labels of the hostname of the row
\* if the hostname has more than one dot and the hostname itself if not,
\* it is a suffix of the hostname with at most one dot, and
\* extract_domain_from_hostname returns it unchanged; and when
\* reduce_domains.py has written its output, the domains written are the
\* last two labels (or the whole) of the hostnames read, each with at most
\* one dot and left unchanged by the reduction.
C30_DomainReduction ==
    /\ (script = "extract_hostnames_for_tld.py" /\ pc = "done") =>
          /\ {rows[j][1] : j \in 1..Len(rows)} =
                {h \in InputHostnames : search(tld, h) # None}
          /\ \A j \in 1..Len(rows) :
                LET hostname == rows[j][1]
                    name == rows[j][2]
                IN  /\ name = LastTwoLabels(hostname)
                    /\ count(hostname, ".") <= 1 => name = hostname
                    /\ endswith(hostname, name)
                    /\ count(name, ".") <= 1
                    /\ extract_domain_from_hostname(name) = name
    /\ (script = "reduce_domains.py" /\ pc = "done") =>
          /\ {rows[j] : j \in 1..Len(rows)} =
                {LastTwoLabels(h) : h \in InputHostnames}
          /\ \A j \in 1..Len(rows) :
                /\ count(rows[j], ".") <= 1
                /\ reduce_domain(rows[j]) = rows[j]
                /\ \E h \in InputHostnames : endswith(h, rows[j])

\* extract_hostnames_for_tld.py has written hal.science as the domain of a
\* hostname of four labels, and science.science as that of one of three.
C30_Witness ==
    /\ script = "extract_hostnames_for_tld.py"
    /\ pc = "done"
    /\ Len(rows) = 2
    /\ rows[1][1] = "science.hal.hal.science"
    /\ rows[1][2] = "hal.science"
    /\ rows[2][1] = "hal.science.science"
    /\ rows[2][2] = "science.science"

====
